---- MODULE Spec2Model ----
(***************************************************************************)
(* State-machine model of tokio-quic's stream multiplexing layer.          *)
(*                                                                         *)
(*  - the stream handles (src/src/async_io.rs, src/src/stream.rs,          *)
(*    src/src/io.rs): poll_write / poll_shutdown / poll_read;              *)
(*  - the connection facade (src/src/connection.rs): bidi / uni opens,     *)
(*    incoming() and Incoming::from_unchecked;                             *)
(*  - the per-connection driver (crate::backend::Driver).  Its source is   *)
(*    not part of src/, so its tick is modelled from spec.md section 4.4   *)
(*    and section 5; the QUIC engine is an in-order, reliable per-stream   *)
(*    byte channel with a send window.                                     *)
(*                                                                         *)
(* Three specifications share the module:                                  *)
(*    SpecStream    one stream, writer -> driver -> engine -> peer driver  *)
(*                  -> reader;                                             *)
(*    SpecOpen      one connection's stream map, facade opens, driver      *)
(*                  insertions and incoming();                             *)
(*    SpecClassify  Incoming::from_unchecked on every input.               *)
(*                                                                         *)
(* Payload bytes are numbered 1, 2, 3, ... in the order they are written,  *)
(* so that loss, duplication and reordering are all visible.               *)
(***************************************************************************)
EXTENDS Integers, Sequences, FiniteSets, TLC

(***************************************************************************)
(* Bounds of the model.                                                    *)
(***************************************************************************)
\* total number of payload bytes a writer hands to poll_write
MaxBytes == 3
\* longest buffer of one poll_write call
MaxPayload == 2
\* largest capacity of a caller's read buffer
MaxCap == 2
\* number of poll_shutdown calls tried on one handle
MaxShutdown == 2
\* largest send window the engine grants the stream
MaxCredit == 2
\* capacity of Inner.recv_buf (STREAM_BUFFER_SIZE), scaled down
StreamBufferSize == 2
\* outbound messages the driver handles per tick (cooperative budget)
MaxBudget == 2

\* open calls made on one connection facade
MaxOpens == 2
\* stream_recv chunks the driver hands to the stream map on one connection
MaxObserve == 2

Min(a, b) == IF a < b THEN a ELSE b

\* xs is a prefix of ys
IsPrefix(xs, ys) ==
    /\ Len(xs) <= Len(ys)
    /\ \A i \in 1..Len(xs) : xs[i] = ys[i]

\* the first n elements of xs / what follows them
Take(xs, n) == SubSeq(xs, 1, Min(n, Len(xs)))
Drop(xs, n) == SubSeq(xs, Min(n, Len(xs)) + 1, Len(xs))

\* the payload bytes number a+1 .. b
Bytes(a, b) == [i \in 1..(b - a) |-> a + i]

(***************************************************************************)
(* Machine words.  Stream ids and slots are u64 in the source; the model   *)
(* keeps the wrap-around of a fixed-width word but scales the width down   *)
(* to WordBits bits, so a "62-bit" slot is a (WordBits - 2)-bit slot.      *)
(***************************************************************************)
WordBits == 3

RECURSIVE Pow2(_)
Pow2(n) == IF n = 0 THEN 1 ELSE 2 * Pow2(n - 1)

Word == 0..(Pow2(WordBits) - 1)

\* the slots that fit the id's upper bits (the source's "62 bit integer")
SlotRange == 0..(Pow2(WordBits - 2) - 1)

\* the slots the model's callers pass to bidi / uni: two that fit the id's
\* upper bits and the first that does not (its top bit is shifted out)
OpenSlots == {0, 1, Pow2(WordBits - 2)}

\* a << k on a fixed-width word: the bits shifted out are dropped
Shl(a, k) == (a * Pow2(k)) % Pow2(WordBits)

\* a | b and a & b, bit by bit
RECURSIVE BitOr(_, _)
BitOr(a, b) ==
    IF a = 0 THEN b
    ELSE IF b = 0 THEN a
    ELSE (IF a % 2 = 1 \/ b % 2 = 1 THEN 1 ELSE 0) + 2 * BitOr(a \div 2, b \div 2)

RECURSIVE BitAnd(_, _)
BitAnd(a, b) ==
    IF a = 0 \/ b = 0 THEN 0
    ELSE (IF a % 2 = 1 /\ b % 2 = 1 THEN 1 ELSE 0) + 2 * BitAnd(a \div 2, b \div 2)

(***************************************************************************)
(* Stream id formation of the four open operations (connection.rs).        *)
(***************************************************************************)
\* QuicConnection<ToClient>::bidi: (id << 2) | 0b01
ToClientBidiId(slot) == BitOr(Shl(slot, 2), 1)

\* the uni open of the server side tagging its id like the bidi open (| 0b01)
ToClientUniId_AsBidi(slot) == BitOr(Shl(slot, 2), 1)

\* QuicConnection<ToClient>::uni: (id << 2) | 0b11
ToClientUniId(slot) == BitOr(Shl(slot, 2), 3)

\* QuicConnection<ToServer>::bidi: id << 2
ToServerBidiId(slot) == Shl(slot, 2)

\* QuicConnection<ToServer>::uni: (id << 2) | 0b10
ToServerUniId(slot) == BitOr(Shl(slot, 2), 2)

\* the id an open forms; server = TRUE is QuicConnection<ToClient>
FormId(server, kind, slot) ==
    IF server
    THEN (IF kind = "bidi" THEN ToClientBidiId(slot) ELSE ToClientUniId(slot))
    ELSE (IF kind = "bidi" THEN ToServerBidiId(slot) ELSE ToServerUniId(slot))

\* the stream of SpecStream: the client example's connection.bidi(1)
StreamId == ToServerBidiId(1)

(***************************************************************************)
(* Messages (lib.rs, enum Message).                                        *)
(***************************************************************************)
Data(id, bytes, fin) ==
    [type |-> "Data", stream_id |-> id, bytes |-> bytes, fin |-> fin]

Close(id) ==
    [type |-> "Close", stream_id |-> id, bytes |-> <<>>, fin |-> FALSE]

VARIABLES
    \* ---- SpecStream: the writer's side
    message_chan,    \* the connection's outbound queue (message_send -> message_recv)
    driver_alive,    \* the writer-side driver task (owner of message_recv) still runs
    stash,           \* bytes the driver retained after a partial stream_send
    credit,          \* bytes the engine still accepts on the stream
    \* ---- SpecStream: the engine
    eng_stream,      \* bytes accepted by stream_send, not yet returned by stream_recv
    eng_fin,         \* stream_send(id, .., fin = true) has been called
    fin_surfaced,    \* stream_recv has returned fin = true
    is_closed,       \* engine.is_closed()
    \* ---- SpecStream: the reader's side
    peer_alive,      \* the reader-side driver task still runs
    rx,              \* the per-stream queue (stream_map sender -> handle's rx)
    rx_closed,       \* the handle called rx.close()
    buffer_read,     \* the handle's read-ahead buffer
    \* ---- SpecStream: what the callers have seen
    written,         \* number of payload bytes accepted by poll_write so far
    accepted,        \* bytes accepted by stream_send, in call order
    got,             \* bytes poll_read returned, in call order
    last_write,      \* the last poll_write call: its buffer and result
    last_read,       \* the last poll_read call: capacity, result, bytes returned
    eof_seen,        \* some poll_read returned ready with zero bytes
    shutdowns,       \* number of poll_shutdown calls made
    fin_consumed,    \* some poll_read took a message with fin = true off rx
    \* ---- SpecOpen: one connection
    is_server,       \* TRUE: QuicConnection<ToClient>, FALSE: QuicConnection<ToServer>
    stream_map,      \* stream id -> the sender of that stream's queue (a channel number)
    map_lock,        \* who holds the stream map's mutex: "free", "facade", "driver"
    open_call,       \* the facade's bidi/uni call in progress
    last_open,       \* the last bidi/uni call that returned, with its result
    n_opens,         \* bidi/uni calls that returned
    handles,         \* the stream handles the user holds
    engine_streams,  \* locally opened bidi streams: the peer may send on them
    incoming_chan,   \* incoming_send -> incoming_recv: published UncheckedQuicStreams
    last_incoming,   \* what the last incoming() call returned
    n_observed,      \* chunks the driver has handed to the stream map
    \* ---- SpecLife: accept() / connect(), the facade and its driver task
    is_established,  \* engine.is_established()
    conn_call,       \* the accept() / connect() call: where it is, what it returned
    facade,          \* the QuicConnection: "none", "live", "dropped"
    driver_spawned,  \* tokio::spawn(driver) has been called
    io_fatal,        \* the socket has failed irrecoverably
    close_code,      \* the code engine.close was called with by the adapter, if any
    ticks_dropped,   \* driver ticks run after the facade was dropped
    ticks_closed,    \* driver ticks begun while engine.is_closed()
    published,       \* ids of the streams the driver sent on incoming_send, in order
    delivered,       \* ids of the streams incoming() returned, in order
    \* ---- SpecManager: the listener's connection manager
    hmac_key,        \* the HMAC key bind_with_config generated for the Manager
    registry,        \* DCID -> the connection whose inbound queue the sender feeds
    inbox,           \* per connection: the (bytes, from) pairs forwarded, in order
    sent,            \* the Retry / Version Negotiation packets sent, in order
    accept_chan,     \* the connections emitted through the accept channel
    n_dgrams,        \* datagrams handled so far
    last_dgram,      \* the last datagram handled and what the manager did with it
    \* ---- SpecTry: the non-blocking reads of a stream handle
    overflow_checks, \* the build: TRUE panics on integer overflow, FALSE wraps
    senders_alive,   \* some sender of the per-stream queue still exists
    last_try,        \* the last try_read* call: its buffers and its result
    last_single,     \* what one try_read on the concatenated buffers would have done
    \* ---- SpecSend: the send staging of a connection's Inner
    send_pos,        \* start of the staged bytes not yet accepted by the socket
    send_end,        \* end of the staged bytes
    send_flush,      \* the staging must be written out before the engine writes more
    eng_packets,     \* sizes of the packets the engine has yet to write, in order
    wire,            \* bytes the socket has accepted
    last_send        \* the last step of poll_send and its outcome

vars_stream == <<message_chan, driver_alive, stash, credit, eng_stream, eng_fin,
                 fin_surfaced, is_closed, peer_alive, rx, rx_closed, buffer_read,
                 written, accepted, got, last_write, last_read, eof_seen, shutdowns,
                 fin_consumed>>

vars_open == <<is_server, stream_map, map_lock, open_call, last_open, n_opens,
               handles, engine_streams, incoming_chan, last_incoming, n_observed>>

vars_life == <<is_established, conn_call, facade, driver_spawned, io_fatal,
               close_code, ticks_dropped, ticks_closed, published, delivered>>

vars_mgr == <<hmac_key, registry, inbox, sent, accept_chan, n_dgrams, last_dgram>>

vars_try == <<overflow_checks, senders_alive, last_try, last_single>>

vars_send == <<send_pos, send_end, send_flush, eng_packets, wire, last_send>>

vars == <<vars_stream, vars_open, vars_life, vars_mgr, vars_try, vars_send>>

\* what the actions of SpecStream, and those of SpecOpen, leave alone
beyond_stream == <<vars_open, vars_life, vars_mgr, vars_try, vars_send>>
beyond_open == <<vars_stream, vars_life, vars_mgr, vars_try, vars_send>>
beyond_life == <<vars_mgr, vars_try, vars_send>>

\* the Inner as accept() and connect() build it, its engine with nothing to send
SendUnused ==
    /\ send_pos = 0
    /\ send_end = 0
    /\ send_flush = FALSE
    /\ eng_packets = <<>>
    /\ wire = 0
    /\ last_send = [res |-> "none"]

\* no listener: the connection was made by connect()
ListenerUnused ==
    /\ hmac_key = 0
    /\ registry = <<>>
    /\ inbox = <<>>
    /\ sent = <<>>
    /\ accept_chan = <<>>
    /\ n_dgrams = 0
    /\ last_dgram = [out |-> "none"]

\* no try_read* call is made
TryUnused ==
    /\ overflow_checks = FALSE
    /\ senders_alive = TRUE
    /\ last_try = [op |-> "none"]
    /\ last_single = [op |-> "none"]

\* the connection of SpecStream, SpecOpen and SpecClassify: connect() or accept()
\* has returned, the facade is held and its driver task runs
LifeEstablished ==
    /\ is_established = TRUE
    /\ conn_call = [pc |-> "returned", res |-> "Ok"]
    /\ facade = "live"
    /\ driver_spawned = TRUE
    /\ io_fatal = FALSE
    /\ close_code = "none"
    /\ ticks_dropped = 0
    /\ ticks_closed = 0
    /\ published = <<>>
    /\ delivered = <<>>

(***************************************************************************)
(* SpecStream -- the writer's handle (async_io.rs, stream.rs).             *)
(***************************************************************************)
\* message_send.send(m): fails once the driver, which owns message_recv, is gone
SendOk == driver_alive

\* poll_write marking its message as the stream's last (fin: true)
WriteMessage_Fin(buf) == Data(StreamId, buf, TRUE)

\* the message poll_write builds from the caller's buffer
WriteMessage(buf) == Data(StreamId, buf, FALSE)

\* AsyncWrite::poll_write(buf): enqueue one Data message, never Pending.
\* A writer writes, then shuts down (the call sequence of the stream contract).
PollWrite(n) ==
    LET buf == Bytes(written, written + n) IN
    /\ shutdowns = 0
    /\ written + n <= MaxBytes
    /\ IF SendOk
       THEN /\ message_chan' = Append(message_chan, WriteMessage(buf))
            /\ written' = written + n
            /\ last_write' = [buf |-> buf, res |-> "Ready", n |-> Len(buf)]
       ELSE /\ last_write' = [buf |-> buf, res |-> "BrokenPipe", n |-> 0]
            /\ UNCHANGED <<message_chan, written>>
    /\ UNCHANGED <<driver_alive, stash, credit, eng_stream, eng_fin, fin_surfaced,
                   is_closed, peer_alive, rx, rx_closed, buffer_read, accepted,
                   got, last_read, eof_seen, shutdowns, fin_consumed>>
    /\ UNCHANGED beyond_stream

\* AsyncWrite::poll_shutdown: enqueue Close(id); the handle keeps no record of
\* an earlier shutdown.
PollShutdown ==
    /\ shutdowns < MaxShutdown
    /\ shutdowns' = shutdowns + 1
    /\ IF SendOk
       THEN message_chan' = Append(message_chan, Close(StreamId))
       ELSE UNCHANGED message_chan
    /\ UNCHANGED <<driver_alive, stash, credit, eng_stream, eng_fin, fin_surfaced,
                   is_closed, peer_alive, rx, rx_closed, buffer_read, written,
                   accepted, got, last_write, last_read, eof_seen,
                   fin_consumed>>
    /\ UNCHANGED beyond_stream

(***************************************************************************)
(* SpecStream -- the engine, as the driver sees it.                        *)
(***************************************************************************)
\* bytes stream_send accepts of an offer of n: bounded by the send window,
\* and none once the stream's FIN has been submitted
SendAccepts(st, n) == IF st.fin THEN 0 ELSE Min(n, st.credit)

\* the peer widens the stream's send window (MAX_STREAM_DATA)
EngineWindowUpdate ==
    /\ ~is_closed
    /\ \E c \in (credit + 1)..MaxCredit : credit' = c
    /\ UNCHANGED <<message_chan, driver_alive, stash, eng_stream, eng_fin,
                   fin_surfaced, is_closed, peer_alive, rx, rx_closed, buffer_read,
                   written, accepted, got, last_write, last_read, eof_seen, shutdowns,
                   fin_consumed>>
    /\ UNCHANGED beyond_stream

\* the connection closes (idle timeout, peer close, fatal error)
EngineClose ==
    /\ ~is_closed
    /\ is_closed' = TRUE
    /\ UNCHANGED <<message_chan, driver_alive, stash, credit, eng_stream, eng_fin,
                   fin_surfaced, peer_alive, rx, rx_closed, buffer_read, written,
                   accepted, got, last_write, last_read, eof_seen, shutdowns,
                   fin_consumed>>
    /\ UNCHANGED beyond_stream

(***************************************************************************)
(* SpecStream -- the writer-side driver tick (spec.md 4.4, steps 3, 5, 6). *)
(* st = [q, stash, credit, eng, fin, acc, stop] is the tick's working      *)
(* state.                                                                  *)
(***************************************************************************)
\* step 3, one message: Data -> stream_send(id, bytes, fin), the remainder of a
\* partial acceptance is stashed and the tick stops taking messages;
\* Close -> stream_send(id, [], fin = true)
HandleMessage(st, m) ==
    IF m.type = "Data"
    THEN LET k == SendAccepts(st, Len(m.bytes)) IN
         [st EXCEPT !.eng    = st.eng \o Take(m.bytes, k),
                    !.acc    = st.acc \o Take(m.bytes, k),
                    !.credit = st.credit - k,
                    !.stash  = st.stash \o Drop(m.bytes, k),
                    !.stop   = k < Len(m.bytes)]
    ELSE [st EXCEPT !.fin = TRUE]

\* step 3: take up to budget messages off the outbound queue
RECURSIVE DrainOutbound(_, _)
DrainOutbound(st, budget) ==
    IF budget = 0 \/ st.q = <<>> \/ st.stop
    THEN st
    ELSE DrainOutbound(HandleMessage([st EXCEPT !.q = Tail(st.q)], Head(st.q)),
                       budget - 1)

\* step 5: the stream is writable again -> flush as much of the stash as the
\* engine takes
FlushStash(st) ==
    LET k == SendAccepts(st, Len(st.stash)) IN
    [st EXCEPT !.eng    = st.eng \o Take(st.stash, k),
               !.acc    = st.acc \o Take(st.stash, k),
               !.credit = st.credit - k,
               !.stash  = Drop(st.stash, k)]

\* a driver that ends its task whatever the engine reports
Terminates_Always(closed) == TRUE

\* step 6: the task ends when engine.is_closed()
Terminates(closed) == closed

\* one tick of the driver task, on the state of the stream
DriverTickStep ==
    /\ driver_alive
    /\ IF Terminates(is_closed)
       THEN \* step 6: the task ends; message_recv is dropped with what it holds
            /\ driver_alive' = FALSE
            /\ message_chan' = <<>>
            /\ UNCHANGED <<stash, credit, eng_stream, eng_fin, accepted>>
       ELSE /\ message_chan # <<>> \/ (stash # <<>> /\ credit > 0)
            /\ \E budget \in 1..MaxBudget :
                 LET st0 == [q |-> message_chan, stash |-> stash, credit |-> credit,
                             eng |-> eng_stream, fin |-> eng_fin, acc |-> accepted,
                             stop |-> FALSE]
                     st1 == FlushStash(DrainOutbound(st0, budget))
                 IN  /\ message_chan' = st1.q
                     /\ stash' = st1.stash
                     /\ credit' = st1.credit
                     /\ eng_stream' = st1.eng
                     /\ eng_fin' = st1.fin
                     /\ accepted' = st1.acc
            /\ UNCHANGED driver_alive
    /\ UNCHANGED <<fin_surfaced, is_closed, peer_alive, rx, rx_closed, buffer_read,
                   written, got, last_write, last_read, eof_seen, shutdowns,
                   fin_consumed>>

DriverTick == DriverTickStep /\ UNCHANGED beyond_stream

(***************************************************************************)
(* SpecStream -- the reader-side driver tick (spec.md 4.4, steps 4 and 6). *)
(***************************************************************************)
\* step 4: stream_recv(id, recv_buf) until Done; each call returns at most
\* |recv_buf| bytes and fin = true with the bytes that end the stream
RECURSIVE RecvChunks(_, _)
RecvChunks(bytes, fin) ==
    IF bytes = <<>>
    THEN (IF fin THEN <<Data(StreamId, <<>>, TRUE)>> ELSE <<>>)
    ELSE LET rest == Drop(bytes, StreamBufferSize) IN
         <<Data(StreamId, Take(bytes, StreamBufferSize), fin /\ rest = <<>>)>>
             \o (IF rest = <<>> THEN <<>> ELSE RecvChunks(rest, fin))

\* a driver whose sends never reach the handle
Deliver_Lost(q, ms) == q

\* the per-stream sender's send(m): refused once the handle closed its receiver
Deliver(q, ms) == IF rx_closed THEN q ELSE q \o ms

PeerDriverTick ==
    /\ peer_alive
    /\ IF is_closed
       THEN \* step 6: broadcast Close(id) to the streams of the map, end the task
            /\ peer_alive' = FALSE
            /\ rx' = Deliver(rx, <<Close(StreamId)>>)
            /\ UNCHANGED <<eng_stream, fin_surfaced>>
       ELSE /\ eng_stream # <<>> \/ (eng_fin /\ ~fin_surfaced)
            /\ rx' = Deliver(rx, RecvChunks(eng_stream, eng_fin /\ ~fin_surfaced))
            /\ eng_stream' = <<>>
            /\ fin_surfaced' = eng_fin
            /\ UNCHANGED peer_alive
    /\ UNCHANGED <<message_chan, driver_alive, stash, credit, eng_fin, is_closed,
                   rx_closed, buffer_read, written, accepted, got, last_write,
                   last_read, eof_seen, shutdowns, fin_consumed>>
    /\ UNCHANGED beyond_stream

(***************************************************************************)
(* SpecStream -- the reader's handle (async_io.rs, poll_read).             *)
(***************************************************************************)
\* BytesMut::rotate_left(n) and truncate(k)
RotateLeft(xs, n) == Drop(xs, n) \o Take(xs, n)
Truncate(xs, k) == Take(xs, k)

\* rx.poll_recv: the next message, None once the channel is closed and drained,
\* Pending otherwise
RxPoll ==
    IF rx # <<>> THEN "Some"
    ELSE IF rx_closed THEN "None"
    ELSE "Pending"

\* AsyncRead::poll_read into a fresh ReadBuf of capacity cap
PollRead(cap) ==
    /\ CASE RxPoll = "Some" /\ Head(rx).type = "Data" ->
              LET m    == Head(rx)
                  buf1 == buffer_read \o m.bytes
                  n    == Min(cap, Len(buf1))
              IN  /\ rx' = Tail(rx)
                  /\ rx_closed' = (rx_closed \/ m.fin)
                  /\ buffer_read' = Truncate(RotateLeft(buf1, n), Len(buf1) - n)
                  /\ got' = got \o Take(buf1, n)
                  /\ last_read' = [cap |-> cap, res |-> "Ready", bytes |-> Take(buf1, n)]
                  /\ eof_seen' = (eof_seen \/ n = 0)
                  /\ fin_consumed' = (fin_consumed \/ m.fin)
         [] RxPoll = "Some" /\ Head(rx).type = "Close" ->
                  /\ rx' = Tail(rx)
                  /\ rx_closed' = TRUE
                  /\ last_read' = [cap |-> cap, res |-> "Ready", bytes |-> <<>>]
                  /\ eof_seen' = TRUE
                  /\ UNCHANGED <<buffer_read, got, fin_consumed>>
         [] RxPoll = "None" ->
                  /\ last_read' = [cap |-> cap, res |-> "BrokenPipe", bytes |-> <<>>]
                  /\ UNCHANGED <<rx, rx_closed, buffer_read, got, eof_seen,
                               fin_consumed>>
         [] RxPoll = "Pending" ->
                  /\ last_read' = [cap |-> cap, res |-> "Pending", bytes |-> <<>>]
                  /\ UNCHANGED <<rx, rx_closed, buffer_read, got, eof_seen,
                               fin_consumed>>
    /\ UNCHANGED <<message_chan, driver_alive, stash, credit, eng_stream, eng_fin,
                   fin_surfaced, is_closed, peer_alive, written, accepted,
                   last_write, shutdowns>>
    /\ UNCHANGED beyond_stream

(***************************************************************************)
(* SpecStream.                                                             *)
(***************************************************************************)
NoCall == [res |-> "None"]
NoIncoming == [tag |-> "NoCall"]

\* the part of the state SpecStream leaves alone
OpenUnused ==
    /\ is_server = FALSE
    /\ stream_map = <<>>
    /\ map_lock = "free"
    /\ open_call = [pc |-> "idle"]
    /\ last_open = NoCall
    /\ n_opens = 0
    /\ handles = {}
    /\ engine_streams = {}
    /\ incoming_chan = <<>>
    /\ last_incoming = NoIncoming
    /\ n_observed = 0

InitStream ==
    /\ message_chan = <<>>
    /\ driver_alive = TRUE
    /\ stash = <<>>
    /\ credit \in 0..MaxCredit
    /\ eng_stream = <<>>
    /\ eng_fin = FALSE
    /\ fin_surfaced = FALSE
    /\ is_closed = FALSE
    /\ peer_alive = TRUE
    /\ rx = <<>>
    /\ rx_closed = FALSE
    /\ buffer_read = <<>>
    /\ written = 0
    /\ accepted = <<>>
    /\ got = <<>>
    /\ last_write = NoCall
    /\ last_read = NoCall
    /\ eof_seen = FALSE
    /\ fin_consumed = FALSE
    /\ shutdowns = 0
    /\ OpenUnused
    /\ LifeEstablished
    /\ ListenerUnused
    /\ SendUnused
    /\ TryUnused

NextStream ==
    \/ \E n \in 1..MaxPayload : PollWrite(n)
    \/ PollShutdown
    \/ EngineWindowUpdate
    \/ EngineClose
    \/ DriverTick
    \/ PeerDriverTick
    \/ \E cap \in 1..MaxCap : PollRead(cap)

SpecStream == InitStream /\ [][NextStream]_vars

(***************************************************************************)
(* Incoming::from_unchecked (connection.rs).                               *)
(***************************************************************************)
None == [tag |-> "None"]
Some(id, rx_end, tx_end) == [tag |-> "Some", id |-> id, rx |-> rx_end, tx |-> tx_end]

\* the match with the roles of its two uni arms exchanged
FromUnchecked_RolesSwapped(stream, server) ==
    IF stream.tag = "Some"
    THEN LET low == BitAnd(stream.id, 3) IN
         IF (low = 2 /\ ~server) \/ (low = 3 /\ server)
         THEN [tag |-> "Uni", id |-> stream.id, rx |-> stream.rx, tx |-> stream.tx]
         ELSE [tag |-> "Bidi", id |-> stream.id, rx |-> stream.rx, tx |-> stream.tx]
    ELSE None

\* match (stream.id & 0b11, is_server): (0b10, true) | (0b11, false) => Uni,
\* (_, _) => Bidi; None stays None
FromUnchecked(stream, server) ==
    IF stream.tag = "Some"
    THEN LET low == BitAnd(stream.id, 3) IN
         IF (low = 2 /\ server) \/ (low = 3 /\ ~server)
         THEN [tag |-> "Uni", id |-> stream.id, rx |-> stream.rx, tx |-> stream.tx]
         ELSE [tag |-> "Bidi", id |-> stream.id, rx |-> stream.rx, tx |-> stream.tx]
    ELSE None

(***************************************************************************)
(* SpecOpen -- the connection facade (connection.rs) and the driver's use  *)
(* of the stream map (spec.md 4.4 step 4, section 5).                      *)
(***************************************************************************)
\* the facade's and the driver's handle on the outbound queue
MessageSend == "message_send"

\* the map after map.insert(id, tx)
MapInsert(map, id, tx_end) ==
    [k \in DOMAIN map \cup {id} |-> IF k = id THEN tx_end ELSE map[k]]

\* the map after map.remove(&id)
MapRemove(map, id) == [k \in DOMAIN map \ {id} |-> map[k]]

\* the channels in use: senders kept in the map, receivers held by a handle or
\* by a published stream
UsedChannels ==
    {stream_map[k] : k \in DOMAIN stream_map}
        \cup {h.rx : h \in handles}
        \cup {incoming_chan[i].rx : i \in DOMAIN incoming_chan}

\* mpsc::unbounded_channel(): a channel nobody holds yet
NewChannel == CHOOSE c \in 1..(Cardinality(UsedChannels) + 1) : c \notin UsedChannels

\* a lock that is granted while another task holds it
LockFree_Always == TRUE

\* Mutex::lock: granted when nobody holds the mutex
LockFree == map_lock = "free"

\* bidi(id) / uni(id): let mut map = self.stream_map.lock().await
OpenLock(kind, slot) ==
    /\ open_call.pc = "idle"
    /\ n_opens < MaxOpens
    /\ LockFree
    /\ map_lock' = "facade"
    /\ open_call' = [pc |-> "locked", kind |-> kind, slot |-> slot]
    /\ UNCHANGED <<is_server, stream_map, last_open, n_opens, handles,
                   engine_streams, incoming_chan, last_incoming, n_observed>>
    /\ UNCHANGED beyond_open

\* the variant of handle an open returns
OpenVariant(kind) == IF kind = "bidi" THEN "Bidi" ELSE "UniWrite"

\* an open that skips the contains_key test
Collides_Never(map, id) == FALSE

\* map.contains_key(&id)
Collides(map, id) == id \in DOMAIN map

\* form the id; if map.contains_key(&id) return Err(IdAlreadyTaken(id)) (the
\* guard is dropped on return)
OpenCheck ==
    /\ open_call.pc = "locked"
    /\ LET id == FormId(is_server, open_call.kind, open_call.slot) IN
       IF Collides(stream_map, id)
       THEN /\ last_open' = [res |-> "IdAlreadyTaken", id |-> id]
            /\ n_opens' = n_opens + 1
            /\ open_call' = [pc |-> "idle"]
            /\ map_lock' = "free"
       ELSE /\ open_call' = [pc |-> "insert", kind |-> open_call.kind,
                             slot |-> open_call.slot, id |-> id]
            /\ UNCHANGED <<last_open, n_opens, map_lock>>
    /\ UNCHANGED <<is_server, stream_map, handles, engine_streams, incoming_chan,
                   last_incoming, n_observed>>
    /\ UNCHANGED beyond_open

\* let (tx, rx) = mpsc::unbounded_channel(); build the handle;
\* map.insert(id, tx); Ok(stream)
OpenInsert ==
    /\ open_call.pc = "insert"
    /\ stream_map' = MapInsert(stream_map, open_call.id, NewChannel)
    /\ handles' = handles \cup {[tag |-> OpenVariant(open_call.kind),
                                 id |-> open_call.id, rx |-> NewChannel,
                                 tx |-> MessageSend]}
    /\ engine_streams' = IF open_call.kind = "bidi"
                         THEN engine_streams \cup {open_call.id}
                         ELSE engine_streams
    /\ last_open' = [res |-> "Ok", id |-> open_call.id]
    /\ n_opens' = n_opens + 1
    /\ open_call' = [pc |-> "idle"]
    /\ map_lock' = "free"
    /\ UNCHANGED <<is_server, incoming_chan, last_incoming, n_observed>>
    /\ UNCHANGED beyond_open

\* the user drops a stream handle, and with it the handle's receiver
DropHandle(h) ==
    /\ h \in handles
    /\ handles' = handles \ {h}
    /\ UNCHANGED <<is_server, stream_map, map_lock, open_call, last_open, n_opens,
                   engine_streams, incoming_chan, last_incoming, n_observed>>
    /\ UNCHANGED beyond_open

\* the ids the peer's facade forms with its own bidi / uni
PeerIds ==
    {FormId(~is_server, kind, slot) : kind \in {"bidi", "uni"}, slot \in OpenSlots}

\* streams the engine may report readable: those the peer opened, and the
\* locally opened bidirectional ones (the peer answers on them)
Readable == PeerIds \cup engine_streams

\* the receiver of channel c still exists: a handle or a published stream holds it
ReceiverAlive(c) ==
    \/ \E h \in handles : h.rx = c
    \/ \E i \in DOMAIN incoming_chan : incoming_chan[i].rx = c

\* driver, step 4, one chunk of stream id: no entry -> new queue, insert the
\* sender, publish the stream on incoming; entry -> send the chunk, and remove
\* the entry when the receiver is gone.  The map is used under its mutex.
\* n_observed counts the chunks that change the map.
DriverObserveStep(id) ==
    /\ driver_alive
    /\ n_observed < MaxObserve
    /\ LockFree
    /\ id \in Readable
    /\ IF id \notin DOMAIN stream_map
       THEN /\ stream_map' = MapInsert(stream_map, id, NewChannel)
            /\ incoming_chan' = Append(incoming_chan, Some(id, NewChannel, MessageSend))
            /\ n_observed' = n_observed + 1
       ELSE IF ReceiverAlive(stream_map[id])
       THEN UNCHANGED <<stream_map, incoming_chan, n_observed>>
       ELSE /\ stream_map' = MapRemove(stream_map, id)
            /\ n_observed' = n_observed + 1
            /\ UNCHANGED incoming_chan
    /\ UNCHANGED <<is_server, map_lock, open_call, last_open, n_opens, handles,
                   engine_streams, last_incoming>>

DriverObserve(id) == DriverObserveStep(id) /\ UNCHANGED beyond_open

\* the handle variant the user gets from an Incoming
IncomingVariant(tag) == IF tag = "Uni" THEN "UniRead" ELSE tag

\* a facade that keeps a clone of incoming_send for itself
IncomingSenders_FacadeClone ==
    (IF driver_alive THEN {"driver"} ELSE {}) \cup (IF facade = "live" THEN {"facade"} ELSE {})

\* the holders of a sender of the incoming channel: QuicConnection::new moves
\* incoming_send, the only one, into the Driver
IncomingSenders == IF driver_alive THEN {"driver"} ELSE {}

Pending == [tag |-> "Pending"]

\* incoming_recv.recv(): the next published stream; None once every sender is
\* dropped and the queue is empty; pending otherwise
IncomingRecv ==
    IF incoming_chan # <<>> THEN Head(incoming_chan)
    ELSE IF IncomingSenders = {} THEN None
    ELSE Pending

\* incoming(): Incoming::from_unchecked(self.incoming_recv.recv().await, role).
\* incoming, bidi and uni all take &mut self: no two of them run at once.
IncomingStep ==
    /\ facade = "live"
    /\ open_call.pc = "idle"
    /\ IncomingRecv # Pending
    /\ LET r == FromUnchecked(IncomingRecv, is_server) IN
       /\ last_incoming' = r
       /\ handles' = IF r = None
                     THEN handles
                     ELSE handles \cup {[tag |-> IncomingVariant(r.tag), id |-> r.id,
                                          rx |-> r.rx, tx |-> r.tx]}
    /\ incoming_chan' = IF incoming_chan = <<>> THEN <<>> ELSE Tail(incoming_chan)
    /\ UNCHANGED <<is_server, stream_map, map_lock, open_call, last_open, n_opens,
                   engine_streams, n_observed>>

Incoming == IncomingStep /\ UNCHANGED beyond_open

\* the part of the state SpecOpen leaves alone
StreamUnused ==
    /\ message_chan = <<>>
    /\ driver_alive = TRUE
    /\ stash = <<>>
    /\ credit = 0
    /\ eng_stream = <<>>
    /\ eng_fin = FALSE
    /\ fin_surfaced = FALSE
    /\ is_closed = FALSE
    /\ peer_alive = TRUE
    /\ rx = <<>>
    /\ rx_closed = FALSE
    /\ buffer_read = <<>>
    /\ written = 0
    /\ accepted = <<>>
    /\ got = <<>>
    /\ last_write = NoCall
    /\ last_read = NoCall
    /\ eof_seen = FALSE
    /\ fin_consumed = FALSE
    /\ shutdowns = 0

\* QuicConnection::new: an empty stream map, no stream published
InitOpen ==
    /\ is_server \in BOOLEAN
    /\ stream_map = <<>>
    /\ map_lock = "free"
    /\ open_call = [pc |-> "idle"]
    /\ last_open = NoCall
    /\ n_opens = 0
    /\ handles = {}
    /\ engine_streams = {}
    /\ incoming_chan = <<>>
    /\ last_incoming = NoIncoming
    /\ n_observed = 0
    /\ StreamUnused
    /\ LifeEstablished
    /\ ListenerUnused
    /\ SendUnused
    /\ TryUnused

NextOpen ==
    \/ \E kind \in {"bidi", "uni"}, slot \in OpenSlots : OpenLock(kind, slot)
    \/ OpenCheck
    \/ OpenInsert
    \/ \E h \in handles : DropHandle(h)
    \/ \E id \in Word : DriverObserve(id)
    \/ Incoming

SpecOpen == InitOpen /\ [][NextOpen]_vars

(***************************************************************************)
(* SpecRelease -- SpecOpen's connection with the shutdown of its handles:  *)
(* poll_shutdown (async_io.rs) enqueues Close(id), the driver submits the  *)
(* FIN (spec.md 4.4 step 3).                                               *)
(***************************************************************************)
\* poll_shutdown on handle h, which can write: tx.send(Message::Close(id))
HandleShutdown(h) ==
    /\ h \in handles
    /\ h.tag \in {"Bidi", "UniWrite"}
    /\ Len(message_chan) < MaxShutdown
    /\ IF SendOk
       THEN message_chan' = Append(message_chan, Close(h.id))
       ELSE UNCHANGED message_chan
    /\ UNCHANGED <<driver_alive, stash, credit, eng_stream, eng_fin, fin_surfaced,
                   is_closed, peer_alive, rx, rx_closed, buffer_read, written,
                   accepted, got, last_write, last_read, eof_seen, shutdowns,
                   fin_consumed>>
    /\ UNCHANGED beyond_stream

\* driver, step 3, a Close(id) at the head of the outbound queue:
\* stream_send(id, [], fin = true); the stream map is not touched
DriverClose ==
    /\ driver_alive
    /\ message_chan # <<>>
    /\ Head(message_chan).type = "Close"
    /\ message_chan' = Tail(message_chan)
    /\ eng_fin' = TRUE
    /\ UNCHANGED <<driver_alive, stash, credit, eng_stream, fin_surfaced, is_closed,
                   peer_alive, rx, rx_closed, buffer_read, written, accepted, got,
                   last_write, last_read, eof_seen, shutdowns, fin_consumed>>
    /\ UNCHANGED beyond_stream

NextRelease ==
    \/ \E kind \in {"bidi", "uni"}, slot \in OpenSlots : OpenLock(kind, slot)
    \/ OpenCheck
    \/ OpenInsert
    \/ \E h \in handles : DropHandle(h)
    \/ \E id \in Word : DriverObserve(id)
    \/ \E h \in handles : HandleShutdown(h)
    \/ DriverClose

SpecRelease == InitOpen /\ [][NextRelease]_vars

(***************************************************************************)
(* SpecClassify -- Incoming::from_unchecked applied to every input: each   *)
(* stream id of the word, each channel, both roles, and the absent stream  *)
(* that recv() yields once the driver has ended.                           *)
(***************************************************************************)
\* the receivers a published stream can carry
Channels == 1..(MaxOpens + MaxObserve)

\* what incoming_recv.recv() hands to from_unchecked
Received == IF incoming_chan = <<>> THEN None ELSE Head(incoming_chan)

InitClassify ==
    /\ is_server \in BOOLEAN
    /\ incoming_chan \in {<<>>} \cup
           {<<Some(id, c, MessageSend)>> : id \in Word, c \in Channels}
    /\ stream_map = <<>>
    /\ map_lock = "free"
    /\ open_call = [pc |-> "idle"]
    /\ last_open = NoCall
    /\ n_opens = 0
    /\ handles = {}
    /\ engine_streams = {}
    /\ last_incoming = NoIncoming
    /\ n_observed = 0
    /\ StreamUnused
    /\ LifeEstablished
    /\ ListenerUnused
    /\ SendUnused
    /\ TryUnused

Classify ==
    /\ last_incoming = NoIncoming
    /\ last_incoming' = FromUnchecked(Received, is_server)
    /\ UNCHANGED <<is_server, stream_map, map_lock, open_call, last_open, n_opens,
                   handles, engine_streams, incoming_chan, n_observed>>
    /\ UNCHANGED beyond_open

NextClassify == Classify

SpecClassify == InitClassify /\ [][NextClassify]_vars

(***************************************************************************)
(* SpecLife -- accept() / connect() (lib.rs), the facade and the lifetime  *)
(* of its driver task (connection.rs; spec.md 4.3, 4.4 step 6, 5, 7).      *)
(***************************************************************************)
\* the engine completes the handshake
EngineEstablish ==
    /\ ~is_established
    /\ ~is_closed
    /\ is_established' = TRUE
    /\ UNCHANGED <<conn_call, facade, driver_spawned, io_fatal, close_code,
                   ticks_dropped, ticks_closed, published, delivered>>
    /\ UNCHANGED <<vars_stream, vars_open, beyond_life>>

\* Handshaker: Ok once engine.is_established(), "unexpected EOF" when the engine
\* is closed before that, pending otherwise
Handshaker ==
    IF is_established THEN "Ok"
    ELSE IF is_closed THEN "UnexpectedEof"
    ELSE "Pending"

\* accept() / connect() going on whatever the Handshaker returned
HandshakeGate_Unchecked(res) == TRUE

\* `Handshaker(&mut inner).await?`: an error leaves accept() / connect() here
HandshakeGate(res) == res = "Ok"

\* accept() / connect() after the handshake: on success QuicConnection::new
\* creates the queues, spawns the driver and returns the facade
ConnectReturn ==
    /\ conn_call.pc = "handshake"
    /\ Handshaker # "Pending"
    /\ IF HandshakeGate(Handshaker)
       THEN /\ conn_call' = [pc |-> "returned", res |-> "Ok"]
            /\ facade' = "live"
            /\ driver_spawned' = TRUE
            /\ driver_alive' = TRUE
       ELSE /\ conn_call' = [pc |-> "returned", res |-> Handshaker]
            /\ UNCHANGED <<facade, driver_spawned, driver_alive>>
    /\ UNCHANGED <<is_established, io_fatal, close_code, ticks_dropped,
                   ticks_closed, published, delivered>>
    /\ UNCHANGED <<message_chan, stash, credit, eng_stream, eng_fin, fin_surfaced,
                   is_closed, peer_alive, rx, rx_closed, buffer_read, written,
                   accepted, got, last_write, last_read, eof_seen, shutdowns,
                   fin_consumed>>
    /\ UNCHANGED <<vars_open, beyond_life>>

\* a stream handle of the connection writes (it holds a clone of message_send)
LifeWrite(n) == driver_spawned /\ PollWrite(n)

\* the socket fails irrecoverably
IoError ==
    /\ driver_alive
    /\ ~io_fatal
    /\ io_fatal' = TRUE
    /\ UNCHANGED <<is_established, conn_call, facade, driver_spawned, close_code,
                   ticks_dropped, ticks_closed, published, delivered>>
    /\ UNCHANGED <<vars_stream, vars_open, beyond_life>>

\* one tick of the spawned driver task: a fatal I/O error makes it instruct the
\* engine to close (reason "fail") and end; otherwise the tick of spec.md 4.4
LifeTick ==
    /\ driver_alive
    /\ IF io_fatal /\ ~is_closed
       THEN /\ driver_alive' = FALSE
            /\ message_chan' = <<>>
            /\ close_code' = "fail"
            /\ UNCHANGED <<stash, credit, eng_stream, eng_fin, fin_surfaced,
                           is_closed, peer_alive, rx, rx_closed, buffer_read,
                           written, accepted, got, last_write, last_read, eof_seen,
                           shutdowns, fin_consumed>>
       ELSE /\ DriverTickStep
            /\ UNCHANGED close_code
    /\ ticks_dropped' = IF facade = "dropped" THEN ticks_dropped + 1 ELSE ticks_dropped
    /\ ticks_closed' = IF is_closed THEN ticks_closed + 1 ELSE ticks_closed
    /\ UNCHANGED <<is_established, conn_call, facade, driver_spawned, io_fatal,
                   published, delivered>>
    /\ UNCHANGED <<vars_open, beyond_life>>

\* the user drops the QuicConnection: its fields are dropped, and dropping the
\* JoinHandle detaches the task (the struct has no Drop impl, nothing aborts)
DropFacade ==
    /\ facade = "live"
    /\ facade' = "dropped"
    /\ UNCHANGED <<is_established, conn_call, driver_spawned, io_fatal, close_code,
                   ticks_dropped, ticks_closed, published, delivered>>
    /\ UNCHANGED <<vars_stream, vars_open, beyond_life>>

\* the driver observes a chunk of stream id; a stream it inserts is published
LifePublish(id) ==
    /\ DriverObserveStep(id)
    /\ published' = IF id \in DOMAIN stream_map THEN published
                    ELSE Append(published, id)
    /\ UNCHANGED <<is_established, conn_call, facade, driver_spawned, io_fatal,
                   close_code, ticks_dropped, ticks_closed, delivered>>
    /\ UNCHANGED <<vars_stream, beyond_life>>

\* incoming() returns
LifeIncoming ==
    /\ IncomingStep
    /\ delivered' = IF IncomingRecv = None THEN delivered
                    ELSE Append(delivered, IncomingRecv.id)
    /\ UNCHANGED <<is_established, conn_call, facade, driver_spawned, io_fatal,
                   close_code, ticks_dropped, ticks_closed, published>>
    /\ UNCHANGED <<vars_stream, beyond_life>>

\* accept() / connect() has been called and runs the Handshaker
InitLife ==
    /\ is_established = FALSE
    /\ conn_call = [pc |-> "handshake"]
    /\ facade = "none"
    /\ driver_spawned = FALSE
    /\ io_fatal = FALSE
    /\ close_code = "none"
    /\ ticks_dropped = 0
    /\ ticks_closed = 0
    /\ published = <<>>
    /\ delivered = <<>>
    /\ ListenerUnused
    /\ SendUnused
    /\ TryUnused
    /\ is_server \in BOOLEAN
    /\ stream_map = <<>>
    /\ map_lock = "free"
    /\ open_call = [pc |-> "idle"]
    /\ last_open = NoCall
    /\ n_opens = 0
    /\ handles = {}
    /\ engine_streams = {}
    /\ incoming_chan = <<>>
    /\ last_incoming = NoIncoming
    /\ n_observed = 0
    /\ message_chan = <<>>
    /\ driver_alive = FALSE
    /\ stash = <<>>
    /\ credit \in 0..MaxCredit
    /\ eng_stream = <<>>
    /\ eng_fin = FALSE
    /\ fin_surfaced = FALSE
    /\ is_closed = FALSE
    /\ peer_alive = TRUE
    /\ rx = <<>>
    /\ rx_closed = FALSE
    /\ buffer_read = <<>>
    /\ written = 0
    /\ accepted = <<>>
    /\ got = <<>>
    /\ last_write = NoCall
    /\ last_read = NoCall
    /\ eof_seen = FALSE
    /\ shutdowns = 0
    /\ fin_consumed = FALSE

NextLife ==
    \/ EngineEstablish
    \/ EngineClose
    \/ ConnectReturn
    \/ \E n \in 1..MaxPayload : LifeWrite(n)
    \/ IoError
    \/ LifeTick
    \/ DropFacade
    \/ \E id \in Word : LifePublish(id)
    \/ LifeIncoming

SpecLife == InitLife /\ [][NextLife]_vars

(***************************************************************************)
(* SpecManager -- the listener's connection manager (spec.md 4.7), with    *)
(* the key QuicListener::bind_with_config hands to it (lib.rs).            *)
(* A connection id is a sequence of integers: <<n>> is chosen by a client, *)
(* <<key, from>> \o dcid is the keyed MAC of (from, dcid).                 *)
(***************************************************************************)
MaxDatagrams == 4

Addresses == {1, 2}
RawDcids == {<<1>>, <<2>>}
Keys == {1, 2}
SupportedVersion == 1

\* a manager whose key is generated anew for every datagram
KeyFor_Fresh(n) == n + 1

\* the key in use for the n-th datagram: Key::generate is called once, in
\* bind_with_config, and the key is moved into the Manager
KeyFor(n) == hmac_key

\* new_dcid: the keyed MAC of (from, dcid)
Derive(key, from, dcid) == <<key, from>> \o dcid

EmptyToken == [key |-> 0, from |-> 0, odcid |-> <<>>]

\* the Retry token: a MAC binding (from, original dcid)
RetryToken(key, from, dcid) == [key |-> key, from |-> from, odcid |-> dcid]

\* a token made by a client that does not know the key
ForgedToken == [key |-> 0, from |-> 1, odcid |-> <<1>>]

\* validation of a token against (from, original dcid): the MAC is the
\* listener's, over this source address, and the Initial is addressed to the
\* new_dcid the Retry gave for that pair
ValidToken(token, key, from, dcid) ==
    /\ token.key = key
    /\ token.from = from
    /\ dcid = Derive(key, from, token.odcid)

Retries == {i \in DOMAIN sent : sent[i].kind = "Retry"}

\* the datagrams a peer can send: connection ids and tokens it chose or learnt
DcidPool == RawDcids \cup {sent[i].scid : i \in Retries}
TokenPool == {EmptyToken, ForgedToken} \cup {sent[i].token : i \in Retries}

Datagrams ==
    [version : {SupportedVersion}, type : {"Initial"}, dcid : DcidPool,
     token : TokenPool, from : Addresses]
    \cup [version : {SupportedVersion}, type : {"Short"}, dcid : DcidPool,
          token : {EmptyToken}, from : Addresses]
    \cup [version : {0}, type : {"Initial"}, dcid : DcidPool,
          token : {EmptyToken}, from : Addresses]

\* what the manager does with datagram d, the n_dgrams + 1 st it receives
Route(d) ==
    IF d.dcid \in DOMAIN registry THEN "forward"
    ELSE IF d.version # SupportedVersion THEN "vn"
    ELSE IF d.type = "Initial" /\ d.token = EmptyToken THEN "retry"
    ELSE IF ValidToken(d.token, KeyFor(n_dgrams), d.from, d.dcid) THEN "accept"
    ELSE "drop"

\* the manager handles one datagram
ManagerRecv(d) ==
    /\ n_dgrams < MaxDatagrams
    /\ n_dgrams' = n_dgrams + 1
    /\ LET out == Route(d)
           key == KeyFor(n_dgrams)
           conn == Len(accept_chan) + 1
       IN  /\ last_dgram' = [out |-> out, d |-> d, bytes |-> n_dgrams + 1]
           /\ inbox' =
                IF out = "forward"
                THEN [inbox EXCEPT ![registry[d.dcid]] =
                         Append(@, [bytes |-> n_dgrams + 1, from |-> d.from])]
                ELSE IF out = "accept" THEN Append(inbox, <<>>)
                ELSE inbox
           /\ sent' =
                IF out = "vn"
                THEN Append(sent, [kind |-> "VN", to |-> d.from, scid |-> <<>>,
                                   token |-> EmptyToken])
                ELSE IF out = "retry"
                THEN Append(sent, [kind |-> "Retry", to |-> d.from,
                                   scid |-> Derive(key, d.from, d.dcid),
                                   token |-> RetryToken(key, d.from, d.dcid)])
                ELSE sent
           /\ registry' =
                IF out = "accept"
                THEN MapInsert(MapInsert(registry,
                                         Derive(key, d.from, d.token.odcid), conn),
                               d.token.odcid, conn)
                ELSE registry
           /\ accept_chan' =
                IF out = "accept"
                THEN Append(accept_chan,
                            [conn |-> conn, from |-> d.from,
                             scid |-> Derive(key, d.from, d.token.odcid),
                             odcid |-> d.token.odcid])
                ELSE accept_chan
    /\ UNCHANGED hmac_key
    /\ UNCHANGED <<overflow_checks, senders_alive, last_try, last_single>>
    /\ UNCHANGED <<vars_stream, vars_open, vars_life, vars_send>>

\* bind_with_config has returned: a fresh key, nothing registered, nothing sent
InitManager ==
    /\ hmac_key \in Keys
    /\ registry = <<>>
    /\ inbox = <<>>
    /\ sent = <<>>
    /\ accept_chan = <<>>
    /\ n_dgrams = 0
    /\ last_dgram = [out |-> "none"]
    /\ TryUnused
    /\ SendUnused
    /\ LifeEstablished
    /\ is_server = TRUE
    /\ stream_map = <<>>
    /\ map_lock = "free"
    /\ open_call = [pc |-> "idle"]
    /\ last_open = NoCall
    /\ n_opens = 0
    /\ handles = {}
    /\ engine_streams = {}
    /\ incoming_chan = <<>>
    /\ last_incoming = NoIncoming
    /\ n_observed = 0
    /\ message_chan = <<>>
    /\ driver_alive = TRUE
    /\ stash = <<>>
    /\ credit = 0
    /\ eng_stream = <<>>
    /\ eng_fin = FALSE
    /\ fin_surfaced = FALSE
    /\ is_closed = FALSE
    /\ peer_alive = TRUE
    /\ rx = <<>>
    /\ rx_closed = FALSE
    /\ buffer_read = <<>>
    /\ written = 0
    /\ accepted = <<>>
    /\ got = <<>>
    /\ last_write = NoCall
    /\ last_read = NoCall
    /\ eof_seen = FALSE
    /\ shutdowns = 0
    /\ fin_consumed = FALSE

NextManager == \E d \in Datagrams : ManagerRecv(d)

SpecManager == InitManager /\ [][NextManager]_vars

(***************************************************************************)
(* SpecTry -- the non-blocking reads of a stream handle (io.rs, impl       *)
(* TryRead for BidiStream), on the handle's rx and buffer_read.            *)
(***************************************************************************)
MaxTry == 2
MaxQueue == 2
\* MAX_DATAGRAM_SIZE, the capacity of the send staging, scaled down
MAX_DATAGRAM_SIZE == 3
\* most packets the engine has to write
MaxPackets == 3

\* remaining_mut() of a Vec<u8>: isize::MAX - len, more than the model ever reads
VecRoom == 2 * MaxBytes + 1

\* the loop over rx.try_recv() while it returns a message: the bytes of a Data
\* are appended to buffer_read, its fin calls rx.close(); a Close is skipped
RECURSIVE Drain(_, _, _)
Drain(br, q, closed) ==
    IF q = <<>> THEN [br |-> br, closed |-> closed]
    ELSE IF Head(q).type = "Data"
         THEN Drain(br \o Head(q).bytes, Tail(q), closed \/ Head(q).fin)
         ELSE Drain(br, Tail(q), closed)

\* rx.try_recv() on the drained queue: Disconnected once every sender is gone,
\* Empty while one is left
TryRecvEnd(alive) == IF alive THEN "Empty" ELSE "Disconnected"

\* try_read_buf into a buffer with rem bytes of room.  checks is the build:
\* `self.buffer_read.len() - total_read` panics on overflow when TRUE, wraps
\* when FALSE (and truncate to the wrapped length changes nothing)
TryReadBufOp(br, q, closed, alive, rem, checks) ==
    LET total_read == Min(rem, Len(br))
        out1       == Take(br, total_read)
        br1        == Truncate(br, Len(br) - total_read)
        d          == Drain(br1, q, closed)
        to_write   == Min(rem - total_read, Len(d.br))
        out2       == out1 \o Take(d.br, to_write)
        overflow   == Len(d.br) < total_read
    IN  IF TryRecvEnd(alive) = "Disconnected"
        THEN [res |-> "Err", n |-> 0, out |-> out1, br |-> d.br, closed |-> d.closed]
        ELSE IF overflow /\ checks
        THEN [res |-> "Panic", n |-> 0, out |-> out2, br |-> d.br, closed |-> d.closed]
        ELSE [res |-> "Ok", n |-> total_read + to_write, out |-> out2,
              br |-> IF overflow THEN d.br
                     ELSE Truncate(d.br, Len(d.br) - total_read),
              closed |-> d.closed]

\* try_read into a slice of cap bytes: try_read_buf into a Vec, then the start
\* of the Vec is written to the slice
TryReadOp(br, q, closed, alive, cap, checks) ==
    LET r == TryReadBufOp(br, q, closed, alive, VecRoom, checks)
    IN  IF r.res = "Ok"
        THEN [r EXCEPT !.n = Min(cap, Len(r.out)), !.out = Take(r.out, cap)]
        ELSE [r EXCEPT !.out = <<>>]

\* try_read_vectored: try_read on each buffer in turn, the counts added up; outs
\* are the buffers' contents so far
RECURSIVE TryReadVectoredOp(_, _, _, _, _, _, _, _)
TryReadVectoredOp(br, q, closed, alive, caps, checks, total, outs) ==
    IF caps = <<>>
    THEN [res |-> "Ok", n |-> total, out |-> outs, br |-> br, closed |-> closed]
    ELSE LET r == TryReadOp(br, q, closed, alive, Head(caps), checks)
         IN  IF r.res # "Ok"
             THEN [res |-> r.res, n |-> 0, out |-> outs, br |-> r.br,
                   closed |-> r.closed]
             ELSE TryReadVectoredOp(r.br, <<>>, r.closed, alive, Tail(caps), checks,
                                    total + r.n, Append(outs, r.out))

RECURSIVE Flatten(_)
Flatten(xss) == IF xss = <<>> THEN <<>> ELSE Head(xss) \o Flatten(Tail(xss))

RECURSIVE Sum(_)
Sum(xs) == IF xs = <<>> THEN 0 ELSE Head(xs) + Sum(Tail(xs))

\* the buffer lists handed to try_read_vectored
BufLists == [1..2 -> 1..MaxCap]

\* the part of the stream a try_read* call leaves alone
TryFrame ==
    /\ UNCHANGED <<message_chan, driver_alive, stash, credit, eng_stream, eng_fin,
                   fin_surfaced, is_closed, peer_alive, written, accepted,
                   last_write, last_read, eof_seen, shutdowns, fin_consumed>>
    /\ UNCHANGED <<overflow_checks, senders_alive>>
    /\ UNCHANGED <<vars_open, vars_life, vars_mgr, vars_send>>

\* the call leaves its result r in the handle; bytes are what it put in the
\* caller's buffers
TryEffect(r, bytes) ==
    /\ got' = got \o bytes
    /\ buffer_read' = r.br
    /\ rx_closed' = r.closed
    /\ rx' = <<>>

\* BidiStream::try_read_buf(buf), buf with cap bytes of room
TryReadBuf(cap) ==
    /\ last_try.seq < MaxTry
    /\ LET r == TryReadBufOp(buffer_read, rx, rx_closed, senders_alive, cap,
                             overflow_checks)
       IN  /\ TryEffect(r, r.out)
           /\ last_try' = [op |-> "try_read_buf", seq |-> last_try.seq + 1,
                           caps |-> <<cap>>, res |-> r.res, n |-> r.n,
                           out |-> <<r.out>>]
    /\ UNCHANGED last_single
    /\ TryFrame

\* BidiStream::try_read(buf), buf of cap bytes
TryRead(cap) ==
    /\ last_try.seq < MaxTry
    /\ LET r == TryReadOp(buffer_read, rx, rx_closed, senders_alive, cap,
                          overflow_checks)
       IN  /\ TryEffect(r, r.out)
           /\ last_try' = [op |-> "try_read", seq |-> last_try.seq + 1,
                           caps |-> <<cap>>, res |-> r.res, n |-> r.n,
                           out |-> <<r.out>>]
    /\ UNCHANGED last_single
    /\ TryFrame

\* BidiStream::try_read_vectored(bufs); last_single is what try_read on one
\* buffer of the same total size does from the same state
TryReadVectored(caps) ==
    /\ last_try.seq < MaxTry
    /\ LET r == TryReadVectoredOp(buffer_read, rx, rx_closed, senders_alive, caps,
                                  overflow_checks, 0, <<>>)
           o == TryReadOp(buffer_read, rx, rx_closed, senders_alive, Sum(caps),
                          overflow_checks)
       IN  /\ TryEffect(r, Flatten(r.out))
           /\ last_try' = [op |-> "try_read_vectored", seq |-> last_try.seq + 1,
                           caps |-> caps, res |-> r.res, n |-> r.n, out |-> r.out]
           /\ last_single' = [op |-> "try_read", res |-> o.res, n |-> o.n,
                              out |-> o.out, br |-> o.br, closed |-> o.closed]
    /\ TryFrame

\* the driver sends a message of the stream to the handle
TrySend(m) ==
    /\ senders_alive
    /\ ~rx_closed
    /\ Len(rx) < MaxQueue
    /\ written + Len(m.bytes) <= MaxBytes
    /\ m.bytes = Bytes(written, written + Len(m.bytes))
    /\ rx' = Append(rx, m)
    /\ written' = written + Len(m.bytes)
    /\ UNCHANGED <<message_chan, driver_alive, stash, credit, eng_stream, eng_fin,
                   fin_surfaced, is_closed, peer_alive, rx_closed, buffer_read,
                   accepted, got, last_write, last_read, eof_seen, shutdowns,
                   fin_consumed>>
    /\ UNCHANGED <<vars_open, vars_life, vars_mgr, vars_try, vars_send>>

\* the stream's sender is dropped (the driver removed the map entry or ended)
SendersDrop ==
    /\ senders_alive
    /\ senders_alive' = FALSE
    /\ UNCHANGED <<overflow_checks, last_try, last_single>>
    /\ UNCHANGED <<vars_stream, vars_open, vars_life, vars_mgr, vars_send>>

\* the messages the driver can send next
TryMessages ==
    {Data(StreamId, Bytes(written, written + k), f) :
        k \in 0..MaxPayload, f \in BOOLEAN} \cup {Close(StreamId)}

\* a stream handle just created: empty queue, empty buffer_read
InitTry ==
    /\ StreamUnused
    /\ OpenUnused
    /\ LifeEstablished
    /\ ListenerUnused
    /\ SendUnused
    /\ overflow_checks \in BOOLEAN
    /\ senders_alive = TRUE
    /\ last_try = [op |-> "none", seq |-> 0]
    /\ last_single = [op |-> "none"]

NextTry ==
    \/ \E cap \in 1..MaxCap : TryReadBuf(cap)
    \/ \E cap \in 1..MaxCap : TryRead(cap)
    \/ \E caps \in BufLists : TryReadVectored(caps)
    \/ \E m \in TryMessages : TrySend(m)
    \/ SendersDrop

SpecTry == InitTry /\ [][NextTry]_vars

\* the handle read with try_read_buf only
NextTryBuf ==
    \/ \E cap \in 1..MaxCap : TryReadBuf(cap)
    \/ \E m \in TryMessages : TrySend(m)
    \/ SendersDrop

SpecTryBuf == InitTry /\ [][NextTryBuf]_vars

(***************************************************************************)
(* SpecCompact -- poll_read (async_io.rs) into the caller's ReadBuf, which *)
(* the caller may hand in again with the bytes of earlier reads filled.    *)
(* A ReadBuf is [mem, filled]: its memory and the length of its filled     *)
(* part; last_read holds the ReadBuf before and after the call.            *)
(***************************************************************************)
\* ReadBuf::new(&mut [0; cap])
NewBuf(cap) == [mem |-> [i \in 1..cap |-> 0], filled |-> 0]

\* ReadBuf::filled() and ReadBuf::remaining()
Filled(rb) == Take(rb.mem, rb.filled)
Remaining(rb) == Len(rb.mem) - rb.filled

\* ReadBuf::put_slice(xs): copy xs behind the filled part, advance filled
PutSlice(rb, xs) ==
    [mem |-> [i \in 1..Len(rb.mem) |->
                 IF i > rb.filled /\ i <= rb.filled + Len(xs)
                 THEN xs[i - rb.filled] ELSE rb.mem[i]],
     filled |-> rb.filled + Len(xs)]

\* ReadBuf::set_filled(n): the filled part becomes the first n bytes
SetFilled(rb, n) == [rb EXCEPT !.filled = n]

\* the Data arm of poll_read: [rb, br] are the caller's ReadBuf and buffer_read
\* after the call
PollReadData(br, bytes, rb) ==
    LET buf1        == br \o bytes
        read_amount == Min(Remaining(rb), Len(buf1))
    IN  [rb |-> SetFilled(PutSlice(rb, Take(buf1, read_amount)), read_amount),
         br |-> Truncate(RotateLeft(buf1, read_amount), Len(buf1) - read_amount)]

\* the caller takes a new, empty ReadBuf of cap bytes
TakeReadBuf(cap) ==
    /\ last_read' = [res |-> "New", before |-> NewBuf(cap), rb |-> NewBuf(cap)]
    /\ last_read # last_read'
    /\ UNCHANGED <<message_chan, driver_alive, stash, credit, eng_stream, eng_fin,
                   fin_surfaced, is_closed, peer_alive, rx, rx_closed, buffer_read,
                   written, accepted, got, last_write, eof_seen, shutdowns,
                   fin_consumed>>
    /\ UNCHANGED beyond_stream

\* AsyncRead::poll_read(cx, buf), buf the ReadBuf the caller holds
PollReadBuf ==
    /\ last_read.res # "None"
    /\ Remaining(last_read.rb) > 0
    /\ LET rb == last_read.rb IN
       CASE RxPoll = "Some" /\ Head(rx).type = "Data" ->
              LET m == Head(rx)
                  r == PollReadData(buffer_read, m.bytes, rb)
              IN  /\ rx' = Tail(rx)
                  /\ rx_closed' = (rx_closed \/ m.fin)
                  /\ buffer_read' = r.br
                  /\ last_read' = [res |-> "Data", before |-> rb, rb |-> r.rb]
                  /\ fin_consumed' = (fin_consumed \/ m.fin)
         [] RxPoll = "Some" /\ Head(rx).type = "Close" ->
                  /\ rx' = Tail(rx)
                  /\ rx_closed' = TRUE
                  /\ last_read' = [res |-> "Ready", before |-> rb, rb |-> rb]
                  /\ UNCHANGED <<buffer_read, fin_consumed>>
         [] RxPoll = "None" ->
                  /\ last_read' = [res |-> "BrokenPipe", before |-> rb, rb |-> rb]
                  /\ UNCHANGED <<rx, rx_closed, buffer_read, fin_consumed>>
         [] RxPoll = "Pending" ->
                  /\ last_read' = [res |-> "Pending", before |-> rb, rb |-> rb]
                  /\ UNCHANGED <<rx, rx_closed, buffer_read, fin_consumed>>
    /\ UNCHANGED <<message_chan, driver_alive, stash, credit, eng_stream, eng_fin,
                   fin_surfaced, is_closed, peer_alive, written, accepted, got,
                   last_write, eof_seen, shutdowns>>
    /\ UNCHANGED beyond_stream

NextCompact ==
    \/ \E cap \in 1..MaxCap : TakeReadBuf(cap)
    \/ PollReadBuf
    \/ \E m \in TryMessages : TrySend(m)

SpecCompact == InitTry /\ [][NextCompact]_vars

(***************************************************************************)
(* SpecSend -- poll_send of a connection's Inner (spec.md 4.2), one action *)
(* per turn of its loop, from the Inner that accept() and connect() build. *)
(* The engine writes its packets whole: a packet that does not fit the     *)
(* slice it is given is answered with BufferTooShort.                      *)
(***************************************************************************)
\* the whole staging, handed to the engine on every call
SendSlice_Whole == MAX_DATAGRAM_SIZE

\* the length of send_staging[send_end..], the slice engine.send writes into
SendSlice == MAX_DATAGRAM_SIZE - send_end

SendFrame == UNCHANGED <<vars_stream, vars_open, vars_life, vars_mgr, vars_try>>

SendRunning == last_send.res # "Fatal"

\* send_flush: write send_staging[send_pos..send_end] to the socket, which
\* accepts k bytes of it (none: would block); advance send_pos; clear the
\* cursors and the flag when send_pos = send_end
SendFlush ==
    /\ SendRunning
    /\ send_flush
    /\ \E k \in 0..(send_end - send_pos) :
         /\ wire' = wire + k
         /\ IF send_pos + k = send_end
            THEN /\ send_pos' = 0
                 /\ send_end' = 0
                 /\ send_flush' = FALSE
                 /\ last_send' = [res |-> "Flushed", n |-> k]
            ELSE /\ send_pos' = send_pos + k
                 /\ UNCHANGED <<send_end, send_flush>>
                 /\ last_send' = [res |-> IF k = 0 THEN "Pending" ELSE "Partial", n |-> k]
    /\ UNCHANGED eng_packets
    /\ SendFrame

\* not send_flush: engine.send(&mut send_staging[send_end..])
EngineSend ==
    /\ SendRunning
    /\ ~send_flush
    /\ IF eng_packets = <<>>
       THEN \* Done: nothing to send, return ready
            /\ last_send' = [res |-> "Done"]
            /\ UNCHANGED <<send_pos, send_end, send_flush, eng_packets, wire>>
       ELSE IF Head(eng_packets) > SendSlice
       THEN \* BufferTooShort: force a flush, then retry
            /\ send_flush' = TRUE
            /\ last_send' = [res |-> "BufferTooShort"]
            /\ UNCHANGED <<send_pos, send_end, eng_packets, wire>>
       ELSE \* Ok((n, info)): advance send_end; flag at capacity minus one; push
            \* send_staging[send_pos..send_end] as one datagram, taken or not
            LET n == Head(eng_packets) IN
            /\ send_end' = send_end + n
            /\ send_flush' = (send_end + n = MAX_DATAGRAM_SIZE - 1)
            /\ eng_packets' = Tail(eng_packets)
            /\ UNCHANGED send_pos
            /\ \E taken \in BOOLEAN :
                 /\ wire' = wire + (IF taken THEN send_end + n - send_pos ELSE 0)
                 /\ last_send' = [res |-> "Ok", n |-> n, pushed |-> taken]
    /\ SendFrame

\* engine.send fails with any other error: the engine is closed with reason
\* "fail" and a fatal I/O error is surfaced
EngineSendError ==
    /\ SendRunning
    /\ ~send_flush
    /\ last_send' = [res |-> "Fatal"]
    /\ UNCHANGED <<send_pos, send_end, send_flush, eng_packets, wire>>
    /\ SendFrame

PacketLists ==
    UNION { [1..len -> 1..MAX_DATAGRAM_SIZE] : len \in 0..MaxPackets }

InitSend ==
    /\ StreamUnused
    /\ OpenUnused
    /\ LifeEstablished
    /\ ListenerUnused
    /\ TryUnused
    /\ send_pos = 0
    /\ send_end = 0
    /\ send_flush = FALSE
    /\ eng_packets \in PacketLists
    /\ wire = 0
    /\ last_send = [res |-> "none"]

NextSend ==
    \/ SendFlush
    \/ EngineSend
    \/ EngineSendError

SpecSend == InitSend /\ [][NextSend]_vars

(***************************************************************************)
(* Claims checked under SpecStream.                                        *)
(***************************************************************************)
\* everything the writer's poll_write calls accepted, in write order
Written == Bytes(0, written)

\* C1 -- end-to-end stream integrity: while the connection is open, the bytes
\* poll_read returned are the bytes written, in order (never anything but a
\* prefix of them, and all of them once the reader has reached the end of the
\* stream), and the reader sees the end of the stream (a zero-length read or
\* BrokenPipe) only if the writer called poll_shutdown.
C1_StreamIntegrity ==
    ~is_closed =>
        /\ IsPrefix(got, Written)
        /\ (last_read.res = "BrokenPipe" => got = Written)
        /\ ((eof_seen \/ last_read.res = "BrokenPipe") => shutdowns > 0)

\* C2 -- outbound ordering under flow control: the bytes stream_send accepted,
\* in call order, are at all times a prefix of the payloads the writer
\* enqueued, in enqueue order.
C2_OutboundOrder == IsPrefix(accepted, Written)

\* C8 -- end-of-stream sequence at a reader: BrokenPipe is returned only after
\* a zero-length successful read (EOF), and never while delivered bytes are
\* still unreturned in the read-ahead buffer.
C8_EofThenBrokenPipe ==
    last_read.res = "BrokenPipe" => (eof_seen /\ buffer_read = <<>>)

\* C9 -- poll_write never returns Pending: while the driver exists the call
\* appends exactly one Data{stream_id = handle id, bytes = buf, fin = false}
\* to the outbound queue and returns buf.len(); once the driver has ended it
\* returns BrokenPipe and enqueues nothing.
C9_PollWrite ==
    [][ last_write' # last_write =>
          LET c == last_write' IN
          IF driver_alive
          THEN /\ c.res = "Ready"
               /\ c.n = Len(c.buf)
               /\ message_chan' = Append(message_chan,
                      [type |-> "Data", stream_id |-> StreamId,
                       bytes |-> c.buf, fin |-> FALSE])
          ELSE /\ c.res = "BrokenPipe"
               /\ message_chan' = message_chan ]_vars

\* C9's case: a write was accepted, the driver ended, a later write failed
C9_Witness ==
    /\ last_write.res = "BrokenPipe"
    /\ written > 0
    /\ ~driver_alive

\* C10 -- shutdown idempotence: however often poll_shutdown is called, at most
\* one Close(id) of the handle is appended to the outbound queue.
C10_AtMostOneClose ==
    Cardinality({i \in DOMAIN message_chan : message_chan[i].type = "Close"}) <= 1

\* C19 -- the read-ahead buffer is served first: a poll_read made while
\* buffer_read is non-empty returns ready, and what it returns starts with the
\* first min(buffered length, capacity) buffered bytes, whether the per-stream
\* queue is empty, closed or not; it never answers Pending or BrokenPipe.
C19_BufferServedFirst ==
    [][ (last_read' # last_read /\ buffer_read # <<>>) =>
          /\ last_read'.res = "Ready"
          /\ IsPrefix(Take(buffer_read, Min(last_read'.cap, Len(buffer_read))),
                      last_read'.bytes) ]_vars

\* C20 -- FIN is terminal for a reader: at most one message with fin = true is
\* delivered to the reader, and once a poll_read has consumed it no later
\* poll_read takes a further message (Data or Close) off the stream's queue.
C20_FinTerminal ==
    /\ [](Cardinality({i \in DOMAIN rx : rx[i].fin})
              + (IF fin_consumed THEN 1 ELSE 0) <= 1)
    /\ [][ fin_consumed => ~(rx # <<>> /\ rx' = Tail(rx)) ]_vars

(***************************************************************************)
(* Claims checked under SpecOpen and SpecClassify.                         *)
(***************************************************************************)
\* (slot << 2) | bits on the word, by arithmetic: bit 0 is the initiator
\* (1 = server), bit 1 the direction (1 = uni)
ExpectedId(server, kind, slot) ==
    ((4 * slot) % Pow2(WordBits))
        + (IF server THEN 1 ELSE 0) + (IF kind = "uni" THEN 2 ELSE 0)

\* the step with which a bidi / uni call returns
OpenReturns == n_opens' = n_opens + 1

\* the queue ends that are alive: handles the user holds, streams published
\* on incoming and not yet taken
LiveEnds == handles \cup {incoming_chan[i] : i \in DOMAIN incoming_chan}

\* C3 -- id collision is rejected without side effects: when the id an open
\* forms is already a key of the stream map, the call returns IdAlreadyTaken
\* carrying exactly that id, hands out no handle and leaves the stream map
\* (and so the existing sender) unchanged.
C3_CollisionRejected ==
    [][ (open_call.pc = "locked" /\ open_call' # open_call
           /\ ExpectedId(is_server, open_call.kind, open_call.slot)
                  \in DOMAIN stream_map)
        => /\ OpenReturns
           /\ last_open'.res = "IdAlreadyTaken"
           /\ last_open'.id = ExpectedId(is_server, open_call.kind, open_call.slot)
           /\ handles' = handles
           /\ stream_map' = stream_map ]_vars

\* C3's case: an open has just been rejected for an id the map still holds
C3_Witness ==
    /\ last_open.res = "IdAlreadyTaken"
    /\ last_open.id \in DOMAIN stream_map
    /\ \E h \in handles : h.id = last_open.id

\* C4 -- opens never collide: the ids formed from distinct 62-bit slots (or
\* for distinct kinds) are distinct; an open succeeds exactly when the id it
\* forms is not a key of the stream map at its return, so of two opens of one
\* id (with no release in between) exactly one succeeds; and every live queue
\* end is the one its id is mapped to, so no id has two live handles.
C4_OpensNeverCollide ==
    /\ [](\A k1, k2 \in {"bidi", "uni"}, s1, s2 \in SlotRange :
             FormId(is_server, k1, s1) = FormId(is_server, k2, s2)
                 => (k1 = k2 /\ s1 = s2))
    /\ [](\A h \in LiveEnds :
             h.id \in DOMAIN stream_map /\ stream_map[h.id] = h.rx)
    /\ [][ OpenReturns =>
             ((last_open'.res = "Ok") <=> (last_open'.id \notin DOMAIN stream_map)) ]_vars

\* C4's case: an open was rejected for the id of a live handle, a second
\* locally opened stream exists, and the driver has inserted a stream
C4_Witness ==
    /\ last_open.res = "IdAlreadyTaken"
    /\ \E h1, h2 \in handles :
          /\ h1.id = last_open.id
          /\ h2.id # h1.id
          /\ h2.tag \in {"Bidi", "UniWrite"}
    /\ incoming_chan # <<>>

\* C5 -- stream id formation: a successful open with slot s returns a handle
\* whose id is (s << 2) | bits, bits = 0b00 client bidi, 0b01 server bidi,
\* 0b10 client uni, 0b11 server uni, and inserts exactly that key.
C5_IdFormation ==
    [][ (OpenReturns /\ last_open'.res = "Ok") =>
          LET id == ExpectedId(is_server, open_call.kind, open_call.slot) IN
          /\ last_open'.id = id
          /\ DOMAIN stream_map' = DOMAIN stream_map \cup {id}
          /\ id \notin DOMAIN stream_map
          /\ \E h \in handles' : /\ h.id = id
                                 /\ h.rx = stream_map'[id]
                                 /\ handles' = handles \cup {h} ]_vars

\* C5's case: a server-side uni(1) succeeded
C5_Witness ==
    /\ is_server
    /\ last_open.res = "Ok"
    /\ last_open.id = 7
    /\ \E h \in handles : h.id = 7 /\ h.tag = "UniWrite"

\* C28 -- formed stream ids stay in range: for every slot the parameter of
\* bidi / uni admits, the id the call forms (the one it returns in the handle
\* or in IdAlreadyTaken) round-trips: id >> 2 is the slot and id & 0b11 is the
\* (role, kind) bits, so two different slots never form the same id.
C28_IdRoundTrip ==
    [][ OpenReturns =>
          /\ last_open'.id \div 4 = open_call.slot
          /\ last_open'.id % 4 = (IF is_server THEN 1 ELSE 0)
                                   + (IF open_call.kind = "uni" THEN 2 ELSE 0) ]_vars

\* C6 -- every stream incoming() delivers is peer-initiated and typed by its
\* direction: bit 0 of its id is the peer's role (0 on a server-side
\* connection, 1 on a client-side one) and it is a UniStream<Readable> exactly
\* when bit 1 is set.
C6_IncomingPeerInitiated ==
    last_incoming.tag \in {"Uni", "Bidi"} =>
        /\ last_incoming.id % 2 = (IF is_server THEN 0 ELSE 1)
        /\ (last_incoming.tag = "Uni") <=> ((last_incoming.id \div 2) % 2 = 1)

\* C7 -- incoming classification table: from_unchecked yields a readable uni
\* for (id & 0b11, is_server) = (0b10, true) or (0b11, false), a BidiStream
\* for every other combination, with the id and both queue ends unchanged,
\* and None for an absent stream.
C7_Classification ==
    last_incoming # NoIncoming =>
        IF Received = None
        THEN last_incoming = None
        ELSE /\ last_incoming.tag =
                  (IF \/ (Received.id % 4 = 2 /\ is_server)
                      \/ (Received.id % 4 = 3 /\ ~is_server)
                   THEN "Uni" ELSE "Bidi")
             /\ last_incoming.id = Received.id
             /\ last_incoming.rx = Received.rx
             /\ last_incoming.tx = Received.tx

\* C7's case: a client-side connection classified a server-initiated uni stream
C7_Witness ==
    /\ ~is_server
    /\ Received # None
    /\ Received.id % 4 = 3
    /\ last_incoming.tag = "Uni"


\* C21 -- FIN is submitted after the data: when the driver submits the stream's
\* FIN (stream_send(id, [], fin = true)) the engine has accepted every byte the
\* writer enqueued before its Close and the stash holds none of them; after the
\* FIN no byte of the stream is submitted.
C21_FinAfterData ==
    /\ [][ (~eng_fin /\ eng_fin') => (stash' = <<>> /\ accepted' = Written) ]_vars
    /\ [][ eng_fin => accepted' = accepted ]_vars

\* C24 -- termination broadcast: the tick on which the reader-side driver ends
\* finds the engine closed and sends Close(id) to the stream of the map (unless
\* its handle has closed the receiver); from then on a poll_read is never left
\* pending: it returns what is queued, the Close as a zero-length read that
\* closes the receiver, and BrokenPipe after that.
C24_TerminationBroadcast ==
    /\ [][ (peer_alive /\ ~peer_alive') =>
              /\ is_closed
              /\ (rx_closed \/ rx' = Append(rx, Close(StreamId))) ]_vars
    /\ [](~peer_alive => RxPoll # "Pending")
    /\ [][ (~peer_alive /\ last_read' # last_read) =>
              /\ last_read'.res \in {"Ready", "BrokenPipe"}
              /\ (rx # <<>> /\ Head(rx).type = "Close") =>
                    (last_read'.res = "Ready" /\ last_read'.bytes = <<>> /\ rx_closed')
              /\ rx = <<>> => last_read'.res = "BrokenPipe" ]_vars

\* the driver ended on a closed engine while the stream was open (no FIN): the
\* reader got the zero-length read of the Close, then BrokenPipe
C24_Witness ==
    /\ ~peer_alive
    /\ is_closed
    /\ ~fin_consumed
    /\ got # <<>>
    /\ eof_seen
    /\ last_read.res = "BrokenPipe"

(***************************************************************************)
(* Claims checked under SpecLife.                                          *)
(***************************************************************************)
\* the driver task was spawned and has ended
DriverEnded == driver_spawned /\ ~driver_alive

\* C11: incoming() returns None only after the driver task has ended, and by
\* then it has delivered every published stream, in publication order; once the
\* driver has ended a call of incoming() never stays pending: it returns a
\* stream still queued, or None when none is left.
C11_IncomingNone ==
    /\ last_incoming = None => (DriverEnded /\ delivered = published)
    /\ IsPrefix(delivered, published)
    /\ (DriverEnded /\ facade = "live") =>
          /\ IncomingRecv # Pending
          /\ (delivered = published => IncomingRecv = None)
          /\ (delivered # published =>
                 IncomingRecv.id = published[Len(delivered) + 1])

\* incoming() returned None after two streams, published before the driver
\* ended, were delivered
C11_Witness ==
    /\ last_incoming = None
    /\ DriverEnded
    /\ Len(published) = 2
    /\ delivered = published

\* C12: after the QuicConnection is dropped its driver task runs no further
\* tick, and the engine has been instructed to close with the application-level
\* no-error code.
C12_DropStopsDriver ==
    facade = "dropped" =>
        /\ ticks_dropped = 0
        /\ ~driver_alive
        /\ close_code = "no_error"

\* C13: a facade exists, and a driver task was spawned, only when accept() /
\* connect() returned Ok after the engine was established; when the engine is
\* closed before being established the call returns the "unexpected EOF"
\* failure, with no facade and no driver task.
C13_HandshakeGating ==
    /\ (facade # "none" \/ driver_spawned) =>
          /\ conn_call.pc = "returned"
          /\ conn_call.res = "Ok"
          /\ is_established
    /\ (conn_call.pc = "returned" /\ ~is_established) =>
          /\ is_closed
          /\ conn_call.res = "UnexpectedEof"
          /\ facade = "none"
          /\ ~driver_spawned
          /\ ~driver_alive

\* connect() returned the facade of an established connection, driver running
C13_Witness ==
    /\ conn_call.pc = "returned"
    /\ conn_call.res = "Ok"
    /\ facade = "live"
    /\ driver_alive
    /\ is_established

\* connect() failed on an engine closed during the handshake
C13_FailureReached ==
    /\ conn_call.pc = "returned"
    /\ conn_call.res = "UnexpectedEof"
    /\ facade = "none"

\* C14: the driver task ends only when the engine is closed or a fatal I/O
\* error occurred, and the first tick that finds the engine closed is its last:
\* at most one tick runs on a closed engine, and after it the task has ended.
C14_DriverLifetime ==
    /\ DriverEnded => (is_closed \/ io_fatal)
    /\ (driver_spawned /\ ~is_closed /\ ~io_fatal) => driver_alive
    /\ ticks_closed <= 1
    /\ ticks_closed = 1 => DriverEnded

\* the engine closed without any I/O error and the driver ended on its next tick
C14_Witness ==
    /\ DriverEnded
    /\ is_closed
    /\ ~io_fatal
    /\ ticks_closed = 1
    /\ written > 0

(***************************************************************************)
(* Claims checked under SpecTryBuf.                                        *)
(***************************************************************************)
\* the payload bytes the driver delivered to the handle, in delivery order
Delivered == Bytes(0, written)

\* C22: with try_read_buf calls and deliveries interleaved, the bytes put in the
\* callers' buffers, in call order, are a prefix of the delivered bytes; a call
\* never panics, returns the number of bytes it appended, and leaves in
\* buffer_read exactly the delivered bytes not yet returned.
C22_TryReadBufOnce ==
    /\ [] IsPrefix(got, Delivered)
    /\ [][ last_try' # last_try =>
             /\ last_try'.res # "Panic"
             /\ (last_try'.res = "Ok" => last_try'.n = Len(last_try'.out[1]))
             /\ got' \o buffer_read' = Delivered ]_vars

(***************************************************************************)
(* Claims checked under SpecCompact.                                       *)
(***************************************************************************)
\* C23: a poll_read that consumes a Data message with payload p, buffer_read
\* holding b, into a buffer with room for c more bytes, returns (appends to what
\* the caller's buffer already holds) exactly the first min(c, |b| + |p|) bytes
\* of b followed by p, and leaves in buffer_read exactly the rest of b followed
\* by p, in order.
C23_Compaction ==
    [][ (rx # <<>> /\ rx' = Tail(rx) /\ Head(rx).type = "Data") =>
          LET all == buffer_read \o Head(rx).bytes
              old == last_read'.before
              n   == Min(Remaining(old), Len(all))
          IN  /\ Take(Filled(last_read'.rb), old.filled) = Filled(old)
              /\ Drop(Filled(last_read'.rb), old.filled) = Take(all, n)
              /\ buffer_read' = Drop(all, n) ]_vars

(***************************************************************************)
(* Claims checked under SpecRelease.                                       *)
(***************************************************************************)
\* C25: the stream map releases its entries: once the driver has processed the
\* Close of a stream, the stream's id is no longer a key of the map; and once it
\* has attempted a delivery the map holds no entry whose receiver was dropped
\* before, so an open is not refused for a stream that is gone.
C25_EntriesReleased ==
    /\ [][ (message_chan # <<>> /\ message_chan' = Tail(message_chan)
              /\ Head(message_chan).type = "Close") =>
                 Head(message_chan).stream_id \notin DOMAIN stream_map' ]_vars
    /\ [][ (n_observed' # n_observed /\ DOMAIN stream_map' \subseteq DOMAIN stream_map) =>
              \E id \in DOMAIN stream_map :
                 /\ ~ReceiverAlive(stream_map[id])
                 /\ stream_map' = MapRemove(stream_map, id) ]_vars

\* a stream was opened, shut down and dropped, its FIN submitted; the next open
\* of the same slot was refused
C25_SlotStillTaken ==
    /\ last_open.res = "IdAlreadyTaken"
    /\ eng_fin
    /\ message_chan = <<>>
    /\ handles = {}
    /\ n_observed = 0

(***************************************************************************)
(* Claims checked under SpecSend.                                          *)
(***************************************************************************)
\* C26: send cursor invariant: from send_pos = send_end = 0 and under every
\* sequence of poll_send steps, 0 <= send_pos <= send_end <= capacity of the
\* send staging.
C26_SendCursors ==
    /\ 0 <= send_pos
    /\ send_pos <= send_end
    /\ send_end <= MAX_DATAGRAM_SIZE

\* a partial flush of a staging that is full
C26_Witness ==
    /\ 0 < send_pos
    /\ send_pos < send_end
    /\ send_end = MAX_DATAGRAM_SIZE
    /\ last_send.res = "Partial"

\* C27: flush flag invariant: in every reachable state of the Inner, send_flush
\* is true if and only if the staging holds bytes not yet handed to the socket,
\* send_pos < send_end.
C27_FlushFlag == send_flush <=> send_pos < send_end

(***************************************************************************)
(* Claims checked under SpecManager.                                       *)
(***************************************************************************)
\* the connections registered under dcid, as a set
RoutedTo(dcid) == IF dcid \in DOMAIN registry THEN {registry[dcid]} ELSE {}

\* the step handled an Initial of the supported version whose dcid is not
\* registered
FreshInitial ==
    /\ last_dgram' # last_dgram
    /\ last_dgram'.d.type = "Initial"
    /\ last_dgram'.d.version = SupportedVersion
    /\ last_dgram'.d.dcid \notin DOMAIN registry

\* C15: every Retry carries the new_dcid that the listener's key gives for
\* (from, odcid), so two Retries for the same pair carry the same new_dcid; an
\* Initial with an empty token, its dcid not registered, is answered by such a
\* Retry and creates no connection; an Initial from the same address that
\* carries the token of a Retry, and is addressed to that Retry's new_dcid, is
\* accepted: a new connection is registered and emitted through the accept
\* channel.
C15_RetryRoundTrip ==
    /\ [](\A i \in Retries :
            /\ sent[i].token.from = sent[i].to
            /\ sent[i].scid = Derive(hmac_key, sent[i].to, sent[i].token.odcid)
            /\ \A j \in Retries :
                 (sent[j].to = sent[i].to /\ sent[j].token.odcid = sent[i].token.odcid)
                     => sent[j].scid = sent[i].scid)
    /\ [][ (FreshInitial /\ last_dgram'.d.token = EmptyToken) =>
              /\ last_dgram'.out = "retry"
              /\ Len(sent') = Len(sent) + 1
              /\ sent'[Len(sent')].kind = "Retry"
              /\ sent'[Len(sent')].to = last_dgram'.d.from
              /\ sent'[Len(sent')].token.odcid = last_dgram'.d.dcid
              /\ UNCHANGED <<registry, accept_chan, inbox>> ]_vars
    /\ [][ (/\ FreshInitial
            /\ \E i \in Retries : /\ sent[i].token = last_dgram'.d.token
                                  /\ sent[i].to = last_dgram'.d.from
                                  /\ sent[i].scid = last_dgram'.d.dcid) =>
              /\ last_dgram'.out = "accept"
              /\ Len(accept_chan') = Len(accept_chan) + 1
              /\ accept_chan'[Len(accept_chan')].from = last_dgram'.d.from
              /\ accept_chan'[Len(accept_chan')].odcid = last_dgram'.d.token.odcid
              /\ accept_chan'[Len(accept_chan')].scid \in DOMAIN registry'
              /\ registry'[accept_chan'[Len(accept_chan')].scid] = Len(accept_chan')
              /\ UNCHANGED sent ]_vars

\* the same (from, odcid) was answered by two Retries, and the Initial that
\* echoed the token was accepted
C15_Witness ==
    /\ \E i, j \in Retries :
         /\ i < j
         /\ sent[i].to = sent[j].to
         /\ sent[i].token.odcid = sent[j].token.odcid
         /\ \E k \in DOMAIN accept_chan :
              /\ accept_chan[k].from = sent[i].to
              /\ accept_chan[k].odcid = sent[i].token.odcid
              /\ accept_chan[k].scid = sent[j].scid
    /\ last_dgram.out = "accept"

\* C16: a datagram whose dcid is registered is forwarded, with its source
\* address, to the inbound queue of the connection registered under that dcid and
\* to no other, and sends nothing, registers nothing, creates nothing; every
\* inbound queue holds its datagrams in arrival order; every accepted connection
\* stays registered under both its new_dcid and its original dcid.
C16_RoutingByDcid ==
    /\ [][ (last_dgram' # last_dgram /\ last_dgram'.d.dcid \in DOMAIN registry) =>
              /\ last_dgram'.out = "forward"
              /\ inbox' = [inbox EXCEPT ![registry[last_dgram'.d.dcid]] =
                              Append(@, [bytes |-> last_dgram'.bytes,
                                         from |-> last_dgram'.d.from])]
              /\ UNCHANGED <<sent, registry, accept_chan>> ]_vars
    /\ [](\A c \in DOMAIN inbox : \A i, j \in DOMAIN inbox[c] :
              i < j => inbox[c][i].bytes < inbox[c][j].bytes)
    /\ [](\A k \in DOMAIN accept_chan :
              /\ RoutedTo(accept_chan[k].scid) = {accept_chan[k].conn}
              /\ RoutedTo(accept_chan[k].odcid) = {accept_chan[k].conn})

(***************************************************************************)
(* Claims checked under SpecTry.                                           *)
(***************************************************************************)
\* C17: a try_read or try_read_buf call made when the stream is not ready (rx
\* and buffer_read both empty) or already closed returns an error, and a call
\* that returns Ok(n) has read data: n > 0 and n bytes were put in the buffer.
C17_TryReadErrors ==
    [][ (last_try' # last_try /\ last_try'.op \in {"try_read", "try_read_buf"}) =>
          /\ ((rx = <<>> /\ buffer_read = <<>>) \/ rx_closed) => last_try'.res = "Err"
          /\ last_try'.res = "Ok" =>
                /\ last_try'.n > 0
                /\ last_try'.n = Len(last_try'.out[1]) ]_vars

\* C18: try_read_vectored(bufs) does what one try_read on a buffer of the same
\* total size does from the same state: same result and byte count, the same
\* bytes at the same positions, every buffer before the last one written full,
\* and the same bytes left in buffer_read.
C18_VectoredEquivalence ==
    [][ (last_try' # last_try /\ last_try'.op = "try_read_vectored") =>
          /\ last_try'.res = last_single'.res
          /\ last_try'.n = last_single'.n
          /\ Flatten(last_try'.out) = last_single'.out
          /\ \A i \in DOMAIN last_try'.out :
                (i < Len(last_try'.out) /\ last_try'.out[i + 1] # <<>>)
                    => Len(last_try'.out[i]) = last_try'.caps[i]
          /\ buffer_read' = last_single'.br
          /\ rx_closed' = last_single'.closed ]_vars

====
